---- MODULE Spec2Model ----
(***************************************************************************)
(* edit0r: the face registry (Faces), the per-character face grid          *)
(* (TextContent), the tree-sitter highlighter pass (RustMode::modify) and  *)
(* the segment coalescer (draw_line) of src/text_mode.rs.                  *)
(*                                                                         *)
(* Rust's 0-based Vec indices are kept as they are in the state (face ids, *)
(* rows, columns); a Vec is a TLA+ sequence, so Vec index i is sequence    *)
(* position i + 1.  Option<T> is a sequence of length at most one.         *)
(***************************************************************************)
EXTENDS Integers, Sequences, FiniteSets, TLC

VARIABLES
    global,     \* Global { faces: Faces { theme_face_ids, faces, face_ids } }
    content,    \* TextContent { faces, lines }; a line is its byte length
    tree,       \* the captures the query yields on the parse tree of the lines
    drawn,      \* per line, the draw_segment calls of the last draw_content
    panicked,   \* the thread has panicked (index out of bounds, unwrap, panic!)
    last,       \* the last operation, its arguments and what it returned (history)
    minor_modes,\* Option of run()'s minor_modes: None until line 276 has built it
    growth      \* what the slot bound of the spec is stated in (history): the
                \* names registered through put_face outside a theme and the
                \* size of the largest theme loaded so far

vars == <<global, content, tree, drawn, panicked, last, minor_modes, growth>>

----------------------------------------------------------------------------
(* Bounds of the model *)

MaxThemeLen == 2    \* entries of a theme passed to load_theme_faces
MaxSlots == 3       \* face slots the registry may grow to
MaxCaptures == 2    \* captures the query yields on one buffer

----------------------------------------------------------------------------
(* Option<T> *)

None == <<>>
Some(x) == <<x>>
unwrap_or(opt, d) == IF opt = None THEN d ELSE opt[1]

----------------------------------------------------------------------------
(* Face and FaceColor *)

Rgb(r, g, b) == <<r, g, b>>

Face(bg, fg) == [bg |-> bg, fg |-> fg]

DefaultFace == Face(Rgb(0, 0, 0), Rgb(255, 255, 255))

KeywordFace == Face(Rgb(0, 0, 0), Rgb(255, 0, 0))

FunctionFace == Face(Rgb(0, 0, 0), Rgb(0, 255, 0))

CommentFace == Face(Rgb(0, 0, 0), Rgb(150, 150, 150))

invalid_face == Face(Rgb(255, 0, 0), Rgb(255, 255, 255))

----------------------------------------------------------------------------
(* Faces: the registry.  A registry value is the record                    *)
(* [theme_face_ids, faces, face_ids]; face_ids is a function whose domain  *)
(* is the set of bound names (HashMap<String, usize>).                     *)

EmptyFaces == [theme_face_ids |-> <<>>, faces |-> <<>>, face_ids |-> <<>>]

\* HashMap::insert
insert(map, k, v) == [x \in (DOMAIN map) \cup {k} |-> IF x = k THEN v ELSE map[x]]

\* Vec::contains
contains(seq, v) == \E i \in 1..Len(seq) : seq[i] = v

\* self.faces[id] = face: an index past the end panics
set_face(fs, id, face) == [fs EXCEPT ![id + 1] = face]

\* Mutant of put_face: the name is not looked up first, every call appends a
\* slot and rebinds the name to it.
put_face_append(reg, name, face) ==
    LET id == Len(reg.faces)
    IN [reg |-> [reg EXCEPT !.faces = Append(reg.faces, face),
                            !.face_ids = insert(reg.face_ids, name, id)],
        id |-> id]

\* Mutant of put_face: the id of a new face is taken after the push, so it is
\* the new length and not the index of the pushed slot.
put_face_late_id(reg, name, face) ==
    IF name \in DOMAIN reg.face_ids
    THEN LET id == reg.face_ids[name]
         IN [reg |-> [reg EXCEPT !.faces = set_face(reg.faces, id, face)],
             id |-> id]
    ELSE LET id == Len(reg.faces) + 1
         IN [reg |-> [reg EXCEPT !.faces = Append(reg.faces, face),
                                 !.face_ids = insert(reg.face_ids, name, id)],
             id |-> id]

put_face(reg, name, face) ==
    IF name \in DOMAIN reg.face_ids
    THEN LET id == reg.face_ids[name]
         IN [reg |-> [reg EXCEPT !.faces = set_face(reg.faces, id, face)],
             id |-> id]
    ELSE LET id == Len(reg.faces)
         IN [reg |-> [reg EXCEPT !.faces = Append(reg.faces, face),
                                 !.face_ids = insert(reg.face_ids, name, id)],
             id |-> id]

get_face_by_name(reg, name) ==
    IF name \in DOMAIN reg.face_ids
    THEN Some(reg.faces[reg.face_ids[name] + 1])
    ELSE None

get_face_by_id(reg, id) ==
    IF id + 1 \in 1..Len(reg.faces) THEN Some(reg.faces[id + 1]) ELSE None

get_face_id(reg, name) ==
    IF name \in DOMAIN reg.face_ids THEN Some(reg.face_ids[name]) ELSE None

unload_theme_faces(reg) ==
    [reg EXCEPT !.face_ids =
        [n \in {k \in DOMAIN reg.face_ids :
                    ~contains(reg.theme_face_ids, reg.face_ids[k])}
            |-> reg.face_ids[n]]]

\* Mutant of load_theme_entry: every entry is registered afresh through put_face,
\* the slot already managed at position i is not reused.
load_theme_entry_fresh(reg, i, name, face) ==
    LET r == put_face(reg, name, face)
    IN [r.reg EXCEPT !.theme_face_ids =
            IF i < Len(reg.theme_face_ids)
            THEN [reg.theme_face_ids EXCEPT ![i + 1] = r.id]
            ELSE Append(reg.theme_face_ids, r.id)]

\* One iteration of the for loop of load_theme_faces: entry (name, face) at
\* position i (0-based).
load_theme_entry(reg, i, name, face) ==
    IF i < Len(reg.theme_face_ids)
    THEN LET id == reg.theme_face_ids[i + 1]
         IN [reg EXCEPT !.face_ids = insert(reg.face_ids, name, id),
                        !.faces = set_face(reg.faces, id, face)]
    ELSE LET r == put_face(reg, name, face)
         IN [r.reg EXCEPT !.theme_face_ids = Append(reg.theme_face_ids, r.id)]

RECURSIVE load_theme_loop(_, _, _)
load_theme_loop(reg, theme, i) ==
    IF i >= Len(theme)
    THEN reg
    ELSE load_theme_loop(
            load_theme_entry(reg, i, theme[i + 1].name, theme[i + 1].face),
            theme, i + 1)

load_theme_faces(reg, theme) == load_theme_loop(unload_theme_faces(reg), theme, 0)

----------------------------------------------------------------------------
(* run: the registry as run() sets it up (put_face "default", then the     *)
(* built-in theme)                                                         *)

RunTheme ==
    <<[name |-> "keyword", face |-> KeywordFace],
      [name |-> "function", face |-> FunctionFace],
      [name |-> "comment", face |-> CommentFace]>>

RunFaces == load_theme_faces(put_face(EmptyFaces, "default", DefaultFace).reg, RunTheme)

----------------------------------------------------------------------------
(* TextContent: the grid.  run() builds it from the lines of the file: one *)
(* row per line, one FaceId 0 per byte.                                    *)

init_faces(lines) == [i \in 1..Len(lines) |-> [c \in 1..lines[i] |-> 0]]

TextContent(lines) == [faces |-> init_faces(lines), lines |-> lines]

----------------------------------------------------------------------------
(* RustMode::modify *)

\* highlight_query.capture_names(): the roles of tree_sitter_rust's
\* HIGHLIGHT_QUERY; "type" stands for the roles the match at lines 370-377
\* does not list.
capture_names ==
    <<"keyword", "function", "function.method", "function.macro", "comment", "type">>

\* Mutant of maybe_face_id: every listed role is looked up under its own name,
\* the method and macro roles are not folded into "function".
maybe_face_id_own_name(reg, name) ==
    CASE name = "keyword"         -> get_face_id(reg, "keyword")
      [] name = "function"        -> get_face_id(reg, "function")
      [] name = "function.method" -> get_face_id(reg, "function.method")
      [] name = "function.macro"  -> get_face_id(reg, "function.macro")
      [] name = "comment"         -> get_face_id(reg, "comment")
      [] OTHER                    -> None

maybe_face_id(reg, name) ==
    CASE name = "keyword"         -> get_face_id(reg, "keyword")
      [] name = "function"        -> get_face_id(reg, "function")
      [] name = "function.method" -> get_face_id(reg, "function")
      [] name = "function.macro"  -> get_face_id(reg, "function")
      [] name = "comment"         -> get_face_id(reg, "comment")
      [] OTHER                    -> None

\* 0 is magic number for default font face
ts_id_to_face_id(reg) ==
    [id \in 0..(Len(capture_names) - 1) |->
        unwrap_or(maybe_face_id(reg, capture_names[id + 1]), 0)]

\* Mutant of set_cell: a column past the end of the row grows the row.
set_cell_grow(grid, row, col, face_id) ==
    IF row >= Len(grid)
    THEN [faces |-> grid, panicked |-> TRUE]
    ELSE IF col >= Len(grid[row + 1])
    THEN [faces |-> [grid EXCEPT ![row + 1] = Append(@, face_id)], panicked |-> FALSE]
    ELSE [faces |-> [grid EXCEPT ![row + 1][col + 1] = face_id], panicked |-> FALSE]

\* Mutant of set_cell: += instead of =.
set_cell_add(grid, row, col, face_id) ==
    IF row >= Len(grid) \/ col >= Len(grid[row + 1])
    THEN [faces |-> grid, panicked |-> TRUE]
    ELSE [faces |-> [grid EXCEPT ![row + 1][col + 1] = @ + face_id],
          panicked |-> FALSE]

\* Mutant of set_cell: only a cell that still holds the default id 0 is
\* written, so the first capture that covers a cell keeps it.
set_cell_once(grid, row, col, face_id) ==
    IF row >= Len(grid) \/ col >= Len(grid[row + 1])
    THEN [faces |-> grid, panicked |-> TRUE]
    ELSE [faces |-> [grid EXCEPT ![row + 1][col + 1] = IF @ = 0 THEN face_id ELSE @],
          panicked |-> FALSE]

\* content.faces[row][col] = face_id: an index out of bounds panics
set_cell(grid, row, col, face_id) ==
    IF row >= Len(grid) \/ col >= Len(grid[row + 1])
    THEN [faces |-> grid, panicked |-> TRUE]
    ELSE [faces |-> [grid EXCEPT ![row + 1][col + 1] = face_id],
          panicked |-> FALSE]

\* for col in start_pos.column..end_pos.column
RECURSIVE set_cols(_, _, _, _, _)
set_cols(grid, row, col, end, face_id) ==
    IF col >= end
    THEN [faces |-> grid, panicked |-> FALSE]
    ELSE LET r == set_cell(grid, row, col, face_id)
         IN IF r.panicked THEN r ELSE set_cols(r.faces, row, col + 1, end, face_id)

\* Mutant of apply_capture: the column range takes in the end column
\* (start..=end).
apply_capture_inclusive(reg, grid, capture) ==
    set_cols(grid, capture.start_position.row, capture.start_position.column,
             capture.end_position.column + 1, ts_id_to_face_id(reg)[capture.index])

\* The body of the loop over a match's captures
apply_capture(reg, grid, capture) ==
    set_cols(grid, capture.start_position.row, capture.start_position.column,
             capture.end_position.column, ts_id_to_face_id(reg)[capture.index])

\* for m in cursor.matches(..) { for capture in m.captures { .. } }
RECURSIVE apply_captures(_, _, _, _)
apply_captures(reg, grid, captures, k) ==
    IF k > Len(captures)
    THEN [faces |-> grid, panicked |-> FALSE]
    ELSE LET r == apply_capture(reg, grid, captures[k])
         IN IF r.panicked THEN r ELSE apply_captures(reg, r.faces, captures, k + 1)

\* modify, by what parse_with and Query::new return: "tree" (both succeed),
\* "no_tree" (parse_with returns None) or "no_query" (Query::new returns Err);
\* the last two panic in unwrap before the grid is touched.
modify(reg, cont, captures, outcome) ==
    IF outcome = "tree"
    THEN LET r == apply_captures(reg, cont.faces, captures, 1)
         IN [content |-> [cont EXCEPT !.faces = r.faces], panicked |-> r.panicked]
    ELSE [content |-> cont, panicked |-> TRUE]

----------------------------------------------------------------------------
(* draw_line and draw_content.  A draw_segment call is recorded as         *)
(* [start, len, face, face_id]: the text slice line[start .. start + len], *)
(* drawn at x = start * char_width, the Face passed, and (for the record)  *)
(* the value of current_face_id at the call.                               *)

\* usize::MAX, the initial current_face_id; the largest number TLC holds
\* stands for it.
usize_MAX == 2147483647

draw_line_step(reg, char_faces, col, st) ==
    LET char_face_id == char_faces[col + 1]
        segment_len == st.segment_len + 1
    IN IF char_face_id # st.current_face_id
       THEN [st EXCEPT
                !.out = Append(@, [start |-> st.segment_start, len |-> segment_len,
                                   face |-> st.current_face,
                                   face_id |-> st.current_face_id]),
                !.segment_len = 0,
                !.segment_start = col,
                !.current_face_id = char_face_id,
                !.current_face =
                    IF get_face_by_id(reg, char_face_id) = None
                    THEN invalid_face
                    ELSE get_face_by_id(reg, char_face_id)[1]]
       ELSE [st EXCEPT !.segment_len = segment_len]

RECURSIVE draw_line_loop(_, _, _, _, _)
draw_line_loop(reg, char_faces, line, col, st) ==
    IF col >= line
    THEN st
    ELSE draw_line_loop(reg, char_faces, line, col + 1,
                        draw_line_step(reg, char_faces, col, st))

\* The segments draw_line draws; panics when the lengths differ.
draw_line(reg, char_faces, line) ==
    IF line # Len(char_faces)
    THEN [segments |-> <<>>, panicked |-> TRUE]
    ELSE LET st == draw_line_loop(reg, char_faces, line, 0,
                        [current_face_id |-> usize_MAX, current_face |-> DefaultFace,
                         segment_start |-> 0, segment_len |-> 0, out |-> <<>>])
         IN [segments |->
                IF st.segment_len > 0
                THEN Append(st.out, [start |-> st.segment_start,
                                     len |-> line - st.segment_start,
                                     face |-> st.current_face,
                                     face_id |-> st.current_face_id])
                ELSE st.out,
             panicked |-> FALSE]

\* Line i (0-based) as draw_content draws it
draw_content_line(reg, cont, i) ==
    IF i < Len(cont.faces)
    THEN draw_line(reg, cont.faces[i + 1], cont.lines[i + 1])
    ELSE draw_line(reg, <<>>, cont.lines[i + 1])

RECURSIVE draw_content_loop(_, _, _, _)
draw_content_loop(reg, cont, i, out) ==
    IF i >= Len(cont.lines)
    THEN [drawn |-> out, panicked |-> FALSE]
    ELSE LET r == draw_content_line(reg, cont, i)
         IN IF r.panicked
            THEN [drawn |-> out, panicked |-> TRUE]
            ELSE draw_content_loop(reg, cont, i + 1, Append(out, r.segments))

draw_content(reg, cont) == draw_content_loop(reg, cont, 0, <<>>)

----------------------------------------------------------------------------
(* Inputs of the registry operations *)

SeqsUpTo(S, n) == UNION {[1..k -> S] : k \in 0..n}

NameInputs == {"default", "keyword"}

FaceInputs == {DefaultFace, KeywordFace}

Themes == SeqsUpTo([name : NameInputs, face : FaceInputs], MaxThemeLen)

NoOp == [op |-> "init", name |-> "", face |-> DefaultFace, theme |-> <<>>,
         again |-> FALSE, outcome |-> "", id |-> None]

----------------------------------------------------------------------------
(* Registry operations as actions *)

PutFace(name, face) ==
    LET r == put_face(global.faces, name, face)
    IN /\ ~panicked
       /\ Len(r.reg.faces) <= MaxSlots
       /\ global' = [global EXCEPT !.faces = r.reg]
       /\ last' = [NoOp EXCEPT !.op = "put_face", !.name = name, !.face = face,
                               !.id = Some(r.id),
                               !.again = (/\ last.op = "put_face"
                                          /\ last.name = name
                                          /\ last.face = face)]
       /\ UNCHANGED <<content, tree, drawn, panicked, minor_modes>>

LoadTheme(theme) ==
    LET reg == load_theme_faces(global.faces, theme)
    IN /\ ~panicked
       /\ Len(reg.faces) <= MaxSlots
       /\ global' = [global EXCEPT !.faces = reg]
       /\ last' = [NoOp EXCEPT !.op = "load_theme_faces", !.theme = theme,
                               !.again = (last.op = "load_theme_faces"
                                          /\ last.theme = theme)]
       /\ UNCHANGED <<content, tree, drawn, panicked, minor_modes>>

----------------------------------------------------------------------------
(* Inputs of the text operations: the buffer read from the file and the    *)
(* captures tree-sitter yields on it.  The parse is a function of the      *)
(* text, so the captures are fixed together with the lines.                *)

\* Line lengths of the sample buffers: no line, an empty line, one line,
\* two lines.
Buffers == {<<>>, <<0>>, <<3>>, <<1, 2>>}

\* The parse callback (lines 338-350) feeds the parser each line followed by
\* "\n".  The positions of that text: a column of a line up to its end, and
\* the start of the row after the last line.
Positions(lines) ==
    {[row |-> Len(lines), column |-> 0]} \cup
    UNION {{[row |-> r, column |-> c] : c \in 0..lines[r + 1]} :
                r \in 0..(Len(lines) - 1)}

Before(p, q) == p.row < q.row \/ (p.row = q.row /\ p.column < q.column)

\* The capture indices the sampled trees use: "keyword", "function.method", "type"
CapturedIds == {0, 2, 5}

\* A capture: capture.index and capture.node's start and end position; a node
\* starts before it ends, both inside the text.
Captures(lines) ==
    {c \in [index : CapturedIds, start_position : Positions(lines),
            end_position : Positions(lines)] :
        Before(c.start_position, c.end_position)}

\* The spec's end-to-end example: a 17-byte line, a capture on [0, 3) and a
\* comment on [11, 17)
ExampleLines == <<17>>

ExampleTree ==
    <<[index |-> 1, start_position |-> [row |-> 0, column |-> 0],
       end_position |-> [row |-> 0, column |-> 3]],
      [index |-> 4, start_position |-> [row |-> 0, column |-> 11],
       end_position |-> [row |-> 0, column |-> 17]]>>

Outcomes == {"tree", "no_tree", "no_query"}

----------------------------------------------------------------------------
(* Text operations as actions *)

\* RustMode::new, by what set_language returns: Ok ("language") or Err
\* ("no_language"), on which expect panics.
new(outcome) ==
    IF outcome = "language"
    THEN [mode |-> Some("RustMode"), panicked |-> FALSE]
    ELSE [mode |-> None, panicked |-> TRUE]

\* run() lines 276-278: vec!(Box::new(RustMode::new()))
NewMinorModes(outcome) ==
    LET r == new(outcome)
    IN /\ ~panicked
       /\ minor_modes = None
       /\ minor_modes' = IF r.panicked THEN None ELSE Some(r.mode)
       /\ panicked' = r.panicked
       /\ last' = [NoOp EXCEPT !.op = "RustMode::new", !.outcome = outcome]
       /\ UNCHANGED <<global, content, tree, drawn, growth>>

\* One iteration of run()'s loop over minor_modes (lines 280-282)
Modify(outcome) ==
    LET r == modify(global.faces, content, tree, outcome)
    IN /\ ~panicked
       /\ minor_modes = Some(Some("RustMode"))
       /\ content' = r.content
       /\ panicked' = r.panicked
       /\ last' = [NoOp EXCEPT !.op = "modify", !.outcome = outcome,
                               !.again = (last.op = "modify")]
       /\ UNCHANGED <<global, tree, drawn, minor_modes, growth>>

DrawContent ==
    LET r == draw_content(global.faces, content)
    IN /\ ~panicked
       /\ minor_modes # None
       /\ drawn' = r.drawn
       /\ panicked' = r.panicked
       /\ last' = [NoOp EXCEPT !.op = "draw_content"]
       /\ UNCHANGED <<global, content, tree, minor_modes, growth>>

NoGrowth == [outside |-> {}, largest |-> 0]

SetLanguage == {"language", "no_language"}

\* run() at line 275: the registry set up, the grid built from the lines
InitText ==
    /\ global = [faces |-> RunFaces]
    /\ \/ \E lines \in Buffers :
            /\ content = TextContent(lines)
            /\ tree \in SeqsUpTo(Captures(lines), MaxCaptures)
       \/ /\ content = TextContent(ExampleLines)
          /\ tree = ExampleTree
    /\ drawn = <<>>
    /\ panicked = FALSE
    /\ last = NoOp
    /\ minor_modes = None
    /\ growth = NoGrowth

NextText ==
    \/ \E outcome \in SetLanguage : NewMinorModes(outcome)
    \/ \E outcome \in Outcomes : Modify(outcome)
    \/ DrawContent

SpecText == InitText /\ [][NextText]_vars

InitFaces ==
    /\ global = [faces |-> EmptyFaces]
    /\ content = [faces |-> <<>>, lines |-> <<>>]
    /\ tree = <<>>
    /\ drawn = <<>>
    /\ panicked = FALSE
    /\ last = NoOp
    /\ minor_modes = None
    /\ growth = NoGrowth

NextFaces ==
    \/ \E name \in NameInputs, face \in FaceInputs :
            PutFace(name, face) /\ UNCHANGED growth
    \/ \E theme \in Themes : LoadTheme(theme) /\ UNCHANGED growth

SpecFaces == InitFaces /\ [][NextFaces]_vars

----------------------------------------------------------------------------
(* Claims about the registry, checked under SpecFaces *)

Reg == global.faces

ThemeNames(theme) == {theme[i].name : i \in 1..Len(theme)}

\* The face a theme gives a name: that of its last entry for the name
ThemeFaceOf(theme, n) ==
    theme[CHOOSE i \in 1..Len(theme) :
            /\ theme[i].name = n
            /\ \A j \in (i + 1)..Len(theme) : theme[j].name # n].face

\* C1 (theme continuity): when load_theme_faces(B) directly follows
\* load_theme_faces(A), every name in both A and B, at whatever positions,
\* keeps the id it had after A, and its slot holds B's face for it.
C1_ThemeContinuity ==
    [][(last.op = "load_theme_faces" /\ last'.op = "load_theme_faces") =>
        \A n \in ThemeNames(last.theme) \cap ThemeNames(last'.theme) :
            /\ get_face_id(global'.faces, n) = get_face_id(global.faces, n)
            /\ get_face_by_name(global'.faces, n) = Some(ThemeFaceOf(last'.theme, n))
      ]_vars

\* C2 (theme idempotence): when load_theme_faces(T) directly follows
\* load_theme_faces(T), from whatever registry the first load started in, every
\* name of T keeps its id and the number of slots is unchanged.
C2_ThemeIdempotence ==
    [][(/\ last.op = "load_theme_faces"
        /\ last'.op = "load_theme_faces"
        /\ last'.theme = last.theme) =>
        /\ \A n \in ThemeNames(last.theme) :
                /\ get_face_id(global.faces, n) # None
                /\ get_face_id(global'.faces, n) = get_face_id(global.faces, n)
        /\ Len(global'.faces.faces) = Len(global.faces.faces)
      ]_vars

\* A two-entry theme with two names has been loaded twice in a row into a
\* registry that also holds a slot outside the theme.
C2_Witness ==
    /\ last.op = "load_theme_faces"
    /\ last.again
    /\ Len(last.theme) = 2
    /\ Cardinality(ThemeNames(last.theme)) = 2
    /\ Len(Reg.faces) > Len(Reg.theme_face_ids)

\* A name registered through put_face outside a theme: it is bound to an id
\* that is not theme-managed (load_theme_faces binds names to theme-managed
\* ids only).
Permanent(reg) ==
    {n \in DOMAIN reg.face_ids : ~contains(reg.theme_face_ids, reg.face_ids[n])}

\* C3 (permanent handles): load_theme_faces, for any theme, leaves every
\* name registered outside a theme bound to the same id, with the same Face
\* in its slot.
C3_PermanentHandlesKept ==
    [][last'.op = "load_theme_faces" =>
        \A n \in Permanent(global.faces) :
            /\ get_face_id(global'.faces, n) = get_face_id(global.faces, n)
            /\ get_face_by_name(global'.faces, n) = get_face_by_name(global.faces, n)
      ]_vars

----------------------------------------------------------------------------
(* Claims about draw_line, checked under SpecText *)

RECURSIVE SumLen(_)
SumLen(segs) == IF segs = <<>> THEN 0 ELSE Head(segs).len + SumLen(Tail(segs))

\* The segments partition [0, n): the first starts at column 0, each next one
\* starts where the one before ends, the last ends at n, none is empty.
Partitions(segs, n) ==
    /\ Len(segs) >= 1
    /\ segs[1].start = 0
    /\ \A k \in 1..Len(segs) : segs[k].len >= 1
    /\ \A k \in 1..(Len(segs) - 1) : segs[k + 1].start = segs[k].start + segs[k].len
    /\ segs[Len(segs)].start + segs[Len(segs)].len = n

\* C4 (coalescer correctness): for every drawn line of length n >= 1 the
\* segments' lengths sum to n, the segments are contiguous, in increasing
\* column order and cover [0, n), and no two adjacent segments carry the same
\* face id.
C4_CoalescerCorrect ==
    \A i \in 1..Len(drawn) :
        content.lines[i] >= 1 =>
            /\ SumLen(drawn[i]) = content.lines[i]
            /\ Partitions(drawn[i], content.lines[i])
            /\ \A k \in 1..(Len(drawn[i]) - 1) :
                    drawn[i][k].face_id # drawn[i][k + 1].face_id

\* The row of the spec's end-to-end example: 2 x3, 0 x8, 3 x6
ExampleRow == [c \in 1..17 |-> IF c <= 3 THEN 2 ELSE IF c <= 11 THEN 0 ELSE 3]

Run(seg) == <<seg.face_id, seg.start, seg.len>>

\* C5 (runs agree with the grid): right after draw_content, every segment of
\* every line is drawn with the Face get_face_by_id returns for the face id
\* of each cell in the segment's column range, and the row
\* [2,2,2, 0 x8, 3 x6] is drawn as exactly the runs (2,0,3), (0,3,8), (3,11,6).
C5_RunsAgreeWithGrid ==
    last.op = "draw_content" =>
        \A i \in 1..Len(drawn) :
            /\ \A k \in 1..Len(drawn[i]) :
                    \A col \in drawn[i][k].start..(drawn[i][k].start + drawn[i][k].len - 1) :
                        get_face_by_id(Reg, content.faces[i][col + 1]) = Some(drawn[i][k].face)
            /\ content.faces[i] = ExampleRow =>
                    [k \in 1..Len(drawn[i]) |-> Run(drawn[i][k])]
                        = <<<<2, 0, 3>>, <<0, 3, 8>>, <<3, 11, 6>>>>

\* C6 (empty line): a drawn zero-length line has exactly one segment, of
\* length 1 at column 0, with the default face.
C6_EmptyLineOneRun ==
    \A i \in 1..Len(drawn) :
        content.lines[i] = 0 =>
            /\ Len(drawn[i]) = 1
            /\ drawn[i][1].start = 0
            /\ drawn[i][1].len = 1
            /\ drawn[i][1].face = DefaultFace

----------------------------------------------------------------------------
(* Claims about the grid and the highlighter pass, checked under SpecText *)

\* C7 (grid/text lockstep): in every state the grid has one row per line and
\* each row is as long as its line, and draw_content, whose only panic is the
\* length check of draw_line, does not panic.
C7_GridLockstep ==
    /\ Len(content.faces) = Len(content.lines)
    /\ \A i \in 1..Len(content.lines) : Len(content.faces[i]) = content.lines[i]
    /\ last.op = "draw_content" => ~panicked

\* A pass has written cells of a two-line grid and the content was drawn
\* after it.
C7_Witness ==
    /\ last.op = "draw_content"
    /\ Len(content.lines) = 2
    /\ Len(drawn) = 2
    /\ \E i \in 1..Len(content.faces) : \E c \in 1..Len(content.faces[i]) :
            content.faces[i][c] # 0

\* setRange as the spec describes it: the columns of [start, end) that lie in
\* row `row` of the grid are overwritten, anything else is left alone.
Clamped(grid, row, start, end, face_id) ==
    [i \in 1..Len(grid) |->
        [c \in 1..Len(grid[i]) |->
            IF i = row + 1 /\ start <= c - 1 /\ c - 1 < end
            THEN face_id ELSE grid[i][c]]]

RECURSIVE ClampedPass(_, _, _, _)
ClampedPass(reg, grid, captures, k) ==
    IF k > Len(captures)
    THEN grid
    ELSE ClampedPass(reg,
            Clamped(grid, captures[k].start_position.row,
                    captures[k].start_position.column,
                    captures[k].end_position.column,
                    ts_id_to_face_id(reg)[captures[k].index]),
            captures, k + 1)

\* C8 (out-of-range spans are clamped): a pass whose captures reach outside
\* the grid row they start on writes only the in-bounds cells of that row and
\* never aborts.
C8_OutOfRangeClamped ==
    [][(last'.op = "modify" /\ last'.outcome = "tree" /\ ~panicked) =>
        /\ ~panicked'
        /\ content'.faces = ClampedPass(global.faces, content.faces, tree, 1)
      ]_vars

\* C9 (parse failure degrades): a pass whose parse yields no tree, or whose
\* query cannot be built, returns normally and leaves the grid as it was.
C9_ParseFailureDegrades ==
    [][(last'.op = "modify" /\ last'.outcome # "tree" /\ ~panicked) =>
        /\ ~panicked'
        /\ content' = content
      ]_vars

\* C10 (pass idempotence): a pass that directly follows a completed pass,
\* lines and registry unchanged, completes and leaves the grid cell for cell
\* as the first pass left it.
C10_PassIdempotent ==
    [][(/\ last.op = "modify" /\ last.outcome = "tree" /\ ~panicked
        /\ last'.op = "modify" /\ last'.outcome = "tree") =>
        /\ ~panicked'
        /\ content'.faces = content.faces
      ]_vars

\* Two completed passes in a row over a grid in which the two captures of the
\* tree left two different non-default face ids.
C10_Witness ==
    /\ last.op = "modify" /\ last.outcome = "tree" /\ last.again
    /\ ~panicked
    /\ Len(tree) = 2
    /\ \E i \in 1..Len(content.faces) :
            {1, 2} \subseteq {content.faces[i][c] : c \in 1..Len(content.faces[i])}

----------------------------------------------------------------------------
(* The text pipeline over the registries the Faces interface builds on the  *)
(* way to run()'s: roles whose face name is bound, roles whose face name is *)
(* not, and a grid cell whose id is no slot.                                *)

\* run() at line 240: only "default" registered
DefaultOnly == put_face(EmptyFaces, "default", DefaultFace).reg

\* run()'s registry after another theme replaced the built-in one: "comment"
\* takes the first theme-managed slot, "keyword" and "function" are unbound
CommentTheme ==
    load_theme_faces(RunFaces, <<[name |-> "comment", face |-> CommentFace]>>)

Registries == {EmptyFaces, DefaultOnly, RunFaces, CommentTheme}

RoleBuffers == {<<>>, <<1>>, <<3>>}

InitRoles ==
    /\ global \in {[faces |-> reg] : reg \in Registries}
    /\ \/ \E lines \in RoleBuffers :
            /\ content = TextContent(lines)
            /\ tree \in SeqsUpTo(Captures(lines), MaxCaptures)
       \/ /\ content = TextContent(ExampleLines)
          /\ tree = ExampleTree
    /\ drawn = <<>>
    /\ panicked = FALSE
    /\ last = NoOp
    /\ minor_modes = None
    /\ growth = NoGrowth

SpecRoles == InitRoles /\ [][NextText]_vars

----------------------------------------------------------------------------
(* C11 *)

\* C11: put_face is an idempotent upsert.  A call on a bound name returns the
\* bound id, replaces only that slot's Face and leaves the slot count, every
\* other slot and every name binding as they were; a call on an unbound name
\* appends exactly one slot, returns the previous slot count and binds the
\* name to it; and the same call made again returns the same id and leaves
\* the state the first call left.
C11_PutFaceUpsert ==
    [][last'.op = "put_face" =>
        LET name == last'.name
            face == last'.face
            after == global'.faces
        IN /\ after.theme_face_ids = Reg.theme_face_ids
           /\ IF name \in DOMAIN Reg.face_ids
              THEN /\ last'.id = <<Reg.face_ids[name]>>
                   /\ Len(after.faces) = Len(Reg.faces)
                   /\ \A i \in 1..Len(Reg.faces) :
                         after.faces[i] = IF i = Reg.face_ids[name] + 1
                                        THEN face ELSE Reg.faces[i]
                   /\ after.face_ids = Reg.face_ids
              ELSE /\ last'.id = <<Len(Reg.faces)>>
                   /\ Len(after.faces) = Len(Reg.faces) + 1
                   /\ \A i \in 1..Len(Reg.faces) : after.faces[i] = Reg.faces[i]
                   /\ after.faces[Len(after.faces)] = face
                   /\ DOMAIN after.face_ids = DOMAIN Reg.face_ids \cup {name}
                   /\ \A n \in DOMAIN Reg.face_ids : after.face_ids[n] = Reg.face_ids[n]
                   /\ after.face_ids[name] = Len(Reg.faces)
           /\ last'.again => /\ global' = global
                              /\ last'.id = last.id]_vars

\* The same put_face call made twice in a row, on a registry that holds
\* another slot and another binding besides the one the call is about.
C11_Witness ==
    /\ last.op = "put_face"
    /\ last.again
    /\ Len(Reg.faces) >= 2
    /\ DOMAIN Reg.face_ids = NameInputs
    /\ Reg.faces[Reg.face_ids[last.name] + 1] = last.face

----------------------------------------------------------------------------
(* C12 *)

FunctionRoles == {"function", "function.method", "function.macro"}

\* The face id the claim gives a capture role in the current registry
RoleFaceId(role) ==
    LET name == IF role \in FunctionRoles THEN "function" ELSE role
    IN IF role \in FunctionRoles \cup {"keyword", "comment"}
          /\ name \in DOMAIN Reg.face_ids
       THEN Reg.face_ids[name]
       ELSE 0

\* The cells capture covers: its row, its columns from start to end
CoveredBy(capture, i, c) ==
    /\ i = capture.start_position.row + 1
    /\ capture.start_position.column < c
    /\ c <= capture.end_position.column

\* C12: capture-role mapping.  In every registry state "function",
\* "function.method" and "function.macro" map to the id bound to "function",
\* "keyword" and "comment" map to the ids bound to their own names, and every
\* other role, like a known role whose face name is not bound, maps to 0; a
\* pass that applied its captures has written the cells of its last capture
\* with the id of that capture's role.
C12_RoleMapping ==
    /\ \A id \in 0..(Len(capture_names) - 1) :
          ts_id_to_face_id(Reg)[id] = RoleFaceId(capture_names[id + 1])
    /\ (last.op = "modify" /\ last.outcome = "tree" /\ ~panicked /\ tree # <<>>) =>
          \A i \in 1..Len(content.faces) : \A c \in 1..Len(content.faces[i]) :
              CoveredBy(tree[Len(tree)], i, c) =>
                  content.faces[i][c] = RoleFaceId(capture_names[tree[Len(tree)].index + 1])

\* A pass whose last capture has the role "function.method" while "function"
\* is bound to a nonzero id: the cells of the capture hold the id of
\* "function".
C12_Witness ==
    /\ last.op = "modify"
    /\ last.outcome = "tree"
    /\ ~panicked
    /\ tree # <<>>
    /\ capture_names[tree[Len(tree)].index + 1] = "function.method"
    /\ "function" \in DOMAIN Reg.face_ids
    /\ Reg.face_ids["function"] # 0
    /\ \E c \in 1..Len(content.faces[1]) :
          /\ CoveredBy(tree[Len(tree)], 1, c)
          /\ content.faces[1][c] = Reg.face_ids["function"]

----------------------------------------------------------------------------
(* C13 *)

\* The captures of the tree, by their place in emission order, that cover
\* cell c of row i
Covering(i, c) == {k \in 1..Len(tree) : CoveredBy(tree[k], i, c)}

Last(S) == CHOOSE k \in S : \A j \in S : j <= k

\* C13: last-write-wins overlay.  After a pass that applied all its captures
\* (all of them in bounds), every cell covered by at least one capture holds
\* the face id of the last capture, in emission order, that covers it, and
\* every cell no capture covers holds the value it had before the pass.
C13_LastWriteWins ==
    [][(last'.op = "modify" /\ last'.outcome = "tree" /\ ~panicked') =>
        \A i \in 1..Len(content.faces) : \A c \in 1..Len(content.faces[i]) :
            IF Covering(i, c) = {}
            THEN content'.faces[i][c] = content.faces[i][c]
            ELSE content'.faces[i][c] =
                    RoleFaceId(capture_names[tree[Last(Covering(i, c))].index + 1])]_vars

\* A pass over two captures with different face ids that overlap in one cell
\* while another cell of the row is covered by the first capture only and a
\* third by none: the shared cell holds the id of the second capture.
C13_Witness ==
    /\ last.op = "modify"
    /\ last.outcome = "tree"
    /\ ~panicked
    /\ Len(tree) = 2
    /\ RoleFaceId(capture_names[tree[1].index + 1])
          # RoleFaceId(capture_names[tree[2].index + 1])
    /\ \E c, d, e \in 1..Len(content.faces[1]) :
          /\ Covering(1, c) = {1, 2}
          /\ content.faces[1][c] = RoleFaceId(capture_names[tree[2].index + 1])
          /\ Covering(1, d) = {1}
          /\ content.faces[1][d] = RoleFaceId(capture_names[tree[1].index + 1])
          /\ Covering(1, e) = {}

----------------------------------------------------------------------------
(* C14 *)

\* C14: a highlighter that cannot be constructed (set_language fails in
\* RustMode::new) is left out of the minor-mode sequence, and the setup goes
\* on without a panic: the sequence is built, it is empty, nothing panicked.
C14_FailedModeOmitted ==
    (last.op = "RustMode::new" /\ last.outcome = "no_language") =>
        /\ ~panicked
        /\ minor_modes = Some(<<>>)

----------------------------------------------------------------------------
(* C15 *)

\* C15: stale theme names are unbound but their slots survive.  After
\* load_theme_faces(A) then load_theme_faces(B), every name of A that does not
\* occur in B has no id, while every theme-managed slot at a position
\* >= len(B) keeps the Face it held before B was loaded and is still what
\* get_face_by_id returns.
C15_StaleNamesUnboundSlotsKept ==
    [][(last.op = "load_theme_faces" /\ last'.op = "load_theme_faces") =>
        LET A == last.theme
            B == last'.theme
            after == global'.faces
        IN /\ \A name \in ThemeNames(A) \ ThemeNames(B) :
                 get_face_id(after, name) = None
           /\ \A p \in (Len(B) + 1)..Len(Reg.theme_face_ids) :
                 /\ after.theme_face_ids[p] = Reg.theme_face_ids[p]
                 /\ get_face_by_id(after, Reg.theme_face_ids[p])
                        = Some(Reg.faces[Reg.theme_face_ids[p] + 1])]_vars

\* No value occurs at two positions of seq
NoDup(seq) == \A i, j \in 1..Len(seq) : seq[i] = seq[j] => i = j

----------------------------------------------------------------------------
(* C16 *)

\* put_face and load_theme_faces with the bookkeeping the slot bound is stated
\* in: the names registered outside a theme, the largest theme loaded so far
PutFaceOutside(name, face) ==
    /\ PutFace(name, face)
    /\ growth' = [growth EXCEPT !.outside = @ \cup {name}]

LoadThemeSized(theme) ==
    /\ LoadTheme(theme)
    /\ growth' = [growth EXCEPT !.largest = IF Len(theme) > @ THEN Len(theme) ELSE @]

NextGrowth ==
    \/ \E name \in NameInputs, face \in FaceInputs : PutFaceOutside(name, face)
    \/ \E theme \in Themes : LoadThemeSized(theme)

SpecGrowth == InitFaces /\ [][NextGrowth]_vars

\* C16: monotonic, bounded slot growth.  Over any sequence of put_face and
\* load_theme_faces calls the number of face slots never decreases, the number
\* of theme-managed positions is the size of the largest theme loaded so far,
\* and the number of slots is at most the number of distinct names registered
\* outside a theme plus the size of the largest theme loaded so far.
C16_BoundedSlotGrowth ==
    [][/\ Len(global'.faces.faces) >= Len(Reg.faces)
       /\ Len(global'.faces.theme_face_ids) = growth'.largest
       /\ Len(global'.faces.faces) <= Cardinality(growth'.outside) + growth'.largest]_vars

----------------------------------------------------------------------------
(* C17 *)

\* C17: an unknown face id falls back instead of failing.  For a grid cell
\* holding an id that is no slot of the registry, draw_line draws a segment
\* containing that cell with the invalid Face and goes on with the rest of
\* the line: right after draw_content every line is drawn, and every cell
\* whose id get_face_by_id answers with None lies in a segment drawn with
\* invalid_face.
C17_UnknownIdFallsBack ==
    (last.op = "draw_content" /\ ~panicked) =>
        /\ Len(drawn) = Len(content.lines)
        /\ \A i \in 1..Len(drawn) : \A c \in 1..Len(content.faces[i]) :
              get_face_by_id(Reg, content.faces[i][c]) = None =>
                  \E k \in 1..Len(drawn[i]) :
                      /\ drawn[i][k].start < c
                      /\ c <= drawn[i][k].start + drawn[i][k].len
                      /\ drawn[i][k].face = invalid_face

----------------------------------------------------------------------------
(* C18 *)

\* C18: a highlighter pass changes nothing but grid cells inside capture
\* ranges.  Whatever the pass does (apply its captures, panic on the way or
\* before it starts), the buffer lines, the number and the lengths of the grid
\* rows, the cells no capture covers and the whole registry are after the
\* pass what they were before it.
C18_PassFrame ==
    [][last'.op = "modify" =>
        /\ content'.lines = content.lines
        /\ Len(content'.faces) = Len(content.faces)
        /\ \A i \in 1..Len(content.faces) :
              /\ Len(content'.faces[i]) = Len(content.faces[i])
              /\ \A c \in 1..Len(content.faces[i]) :
                    Covering(i, c) = {} => content'.faces[i][c] = content.faces[i][c]
        /\ global' = global]_vars

\* A pass that wrote a nonzero id into a covered cell of a row that also has
\* a cell no capture covers, with run()'s registry in place.
C18_Witness ==
    /\ last.op = "modify"
    /\ last.outcome = "tree"
    /\ ~panicked
    /\ Reg = RunFaces
    /\ \E i \in 1..Len(content.faces) : \E c, d \in 1..Len(content.faces[i]) :
          /\ Covering(i, c) # {}
          /\ content.faces[i][c] # 0
          /\ Covering(i, d) = {}
          /\ content.faces[i][d] = 0

----------------------------------------------------------------------------
(* C19 *)

\* C19: a loaded theme resolves to its own faces.  From any reachable registry
\* state, after load_theme_faces(T) where the names of T are pairwise
\* distinct, get_face_by_name(name) returns the face paired with name in T for
\* every entry of T, and distinct names of T have distinct ids: the
\* theme-managed id list holds no id twice.
C19_ThemeResolvesToItsFaces ==
    [][(/\ last'.op = "load_theme_faces"
        /\ \A i, j \in 1..Len(last'.theme) :
              last'.theme[i].name = last'.theme[j].name => i = j) =>
        LET T == last'.theme
            after == global'.faces
        IN /\ \A i \in 1..Len(T) :
                 get_face_by_name(after, T[i].name) = Some(T[i].face)
           /\ \A i, j \in 1..Len(T) :
                 get_face_id(after, T[i].name) = get_face_id(after, T[j].name)
                    => i = j
           /\ NoDup(after.theme_face_ids)]_vars

----------------------------------------------------------------------------
(* C20 *)

\* C20: no dangling handle inside the registry.  In every state reachable by
\* put_face and load_theme_faces, every id in the name-to-id map and every id
\* in the theme-managed list is smaller than the number of face slots.
C20_NoDanglingHandle ==
    /\ \A name \in DOMAIN Reg.face_ids : Reg.face_ids[name] < Len(Reg.faces)
    /\ \A p \in 1..Len(Reg.theme_face_ids) : Reg.theme_face_ids[p] < Len(Reg.faces)

\* A registry with a permanent and a theme-managed slot, both bound, reached
\* by a theme load that overwrote the theme-managed slot in place.
C20_Witness ==
    /\ last.op = "load_theme_faces"
    /\ last.again
    /\ Len(Reg.faces) >= 2
    /\ Len(Reg.theme_face_ids) >= 1
    /\ \E name \in DOMAIN Reg.face_ids : ~contains(Reg.theme_face_ids, Reg.face_ids[name])
    /\ \E name \in DOMAIN Reg.face_ids : contains(Reg.theme_face_ids, Reg.face_ids[name])

============================================================================
